---- MODULE Spec2Model ----
(***************************************************************************)
(* The 7TV paint registry of src/providers/seventv/SeventvPaints.cpp:      *)
(* the descriptor parser (rgbaToQColor, parsePaintColor, parsePaintStops,  *)
(* parsePaint) and the registry SeventvPaints (knownPaints_, paintMap_,    *)
(* mutex_) with getPaint, addPaint, assignPaintToUser, clearPaintFromUser  *)
(* and the success handler of loadSeventvPaints.                           *)
(*                                                                         *)
(* Four specifications share the variables:                                *)
(*   Spec       every handler is one step (each runs under mutex_);        *)
(*   SpecParse  the pure parser functions applied to bounded inputs;       *)
(*   SpecConc   getPaint and the catalog handler split at their lock,      *)
(*              map-access and unlock points, interleaved by threads;      *)
(*   SpecLoad   loadSeventvPaints: the request, its failure, its response. *)
(***************************************************************************)
EXTENDS Integers, Sequences, FiniteSets, TLC

VARIABLES knownPaints_, paintMap_, allocated, last, mutex_, load, get, committed,
          urlQuery, pending

vars == <<knownPaints_, paintMap_, allocated, last, mutex_, load, get, committed,
          urlQuery, pending>>

\* the function-local statics of loadSeventvPaints and the requests in flight
loaderVars == <<urlQuery, pending>>

(***************************************************************************)
(* Bounds of the model.                                                    *)
(***************************************************************************)
\* make_shared<...Paint> calls over a run (instances are numbered 1..)
MaxPaints == 3
\* records in one catalog response
MaxBatch == 2
\* stop records in one gradient
MaxStops == 3

(***************************************************************************)
(* std::optional<T>: <<>> is std::nullopt, <<x>> holds x.                  *)
(***************************************************************************)
Nullopt == <<>>
Some(x) == <<x>>
HasValue(o) == o # <<>>
Value(o) == o[1]

(***************************************************************************)
(* uint32_t as two 16-bit halves (value = hi * 2^16 + lo), so that every   *)
(* 32-bit word is representable with small integers.                       *)
(***************************************************************************)
Byte == 256

Word(hi, lo) == [hi |-> hi, lo |-> lo]

\* color >> n for the shift counts rgbaToQColor uses
ShiftRight(w, n) ==
    CASE n = 0  -> w
      [] n = 8  -> Word(w.hi \div Byte, ((w.hi % Byte) * Byte) + (w.lo \div Byte))
      [] n = 16 -> Word(0, w.hi)
      [] n = 24 -> Word(0, w.hi \div Byte)

\* (int)(w & 0xFF)
AndFF(w) == w.lo % Byte

\* a mis-shifted green channel (>> 8 instead of >> 16)
rgbaToQColorGreenShift(color) ==
    [red   |-> AndFF(ShiftRight(color, 24)),
     green |-> AndFF(ShiftRight(color, 8)),
     blue  |-> AndFF(ShiftRight(color, 8)),
     alpha |-> AndFF(color)]

rgbaToQColor(color) ==
    [red   |-> AndFF(ShiftRight(color, 24)),
     green |-> AndFF(ShiftRight(color, 16)),
     blue  |-> AndFF(ShiftRight(color, 8)),
     alpha |-> AndFF(color)]

\* the QJsonValue of a "color" field: null, or a number (toInt, as a word)
JsonNull == <<>>
JsonInt(w) == <<w>>
toInt(json) == json[1]

parsePaintColor(color) ==
    IF color = JsonNull THEN Nullopt ELSE Some(rgbaToQColor(toInt(color)))

(***************************************************************************)
(* Stop positions are doubles in the source; here a position is the        *)
(* integer number of 1e-7 steps, so the nudge of line 55 is one unit and   *)
(* 1.0 is PositionScale units.  (For positions of the normalized range the *)
(* double sum position + 1e-7 differs from position, as the unit does.)    *)
(***************************************************************************)
Nudge == 1
PositionScale == 10000000
LastStopInit == -10000000
HalfPosition == PositionScale \div 2

RECURSIVE parsePaintStopsFrom(_, _, _)
\* the loop of parsePaintStops: stops[i..] with the running lastStop
parsePaintStopsFrom(stops, i, lastStop) ==
    IF i > Len(stops) THEN <<>>
    ELSE LET at == stops[i].at
             position == IF at = lastStop THEN at + Nudge ELSE at
         IN  <<[position |-> position, color |-> rgbaToQColor(stops[i].color)]>>
                 \o parsePaintStopsFrom(stops, i + 1, position)

parsePaintStops(stops) == parsePaintStopsFrom(stops, 1, LastStopInit)

(***************************************************************************)
(* parsePaint.  A descriptor record carries the fields the function reads; *)
(* `image` is what Image::fromUrl({image_url}, 1) returns for the record   *)
(* ("nullptr" or a handle), an answer of the external image resolver.      *)
(* An absent "function"/"id"/"name" reads as "" (QJsonValue::toString).    *)
(* `fresh` is the identity of the instance make_shared creates.  repeat,   *)
(* angle and the drop shadows are copied into the paint field for field    *)
(* and take no part in any decision, so they are not carried.              *)
(***************************************************************************)
NullImage == "nullptr"

\* a dispatch that forgot the lower-case "url" spelling
parsePaintNoLowerUrl(paintJson, fresh) ==
    LET common == [inst |-> fresh, name |-> paintJson.name, id |-> paintJson.id]
        stops  == parsePaintStops(paintJson.stops)
    IN  IF paintJson.function \in {"LINEAR_GRADIENT", "linear-gradient"}
        THEN Some(common @@ [kind |-> "LinearGradientPaint",
                             color |-> parsePaintColor(paintJson.color),
                             stops |-> stops])
        ELSE IF paintJson.function \in {"RADIAL_GRADIENT", "radial-gradient"}
        THEN Some(common @@ [kind |-> "RadialGradientPaint", stops |-> stops])
        ELSE IF paintJson.function = "URL"
        THEN IF paintJson.image = NullImage
             THEN Nullopt
             ELSE Some(common @@ [kind |-> "UrlPaint", image |-> paintJson.image])
        ELSE Nullopt

parsePaint(paintJson, fresh) ==
    LET common == [inst |-> fresh, name |-> paintJson.name, id |-> paintJson.id]
        stops  == parsePaintStops(paintJson.stops)
    IN  IF paintJson.function = "LINEAR_GRADIENT" \/ paintJson.function = "linear-gradient"
        THEN Some(common @@ [kind |-> "LinearGradientPaint",
                             color |-> parsePaintColor(paintJson.color),
                             stops |-> stops])
        ELSE IF paintJson.function = "RADIAL_GRADIENT" \/ paintJson.function = "radial-gradient"
        THEN Some(common @@ [kind |-> "RadialGradientPaint", stops |-> stops])
        ELSE IF paintJson.function = "URL" \/ paintJson.function = "url"
        THEN IF paintJson.image = NullImage
             THEN Nullopt
             ELSE Some(common @@ [kind |-> "UrlPaint", image |-> paintJson.image])
        ELSE Nullopt

(***************************************************************************)
(* The registry.  A std::shared_ptr<Paint> is the paint record itself: its *)
(* field `inst` is the identity of the instance (the k-th make_shared of   *)
(* the run), the other fields are the immutable Paint.  An unordered_map   *)
(* is a function whose DOMAIN is the set of keys present.                  *)
(***************************************************************************)
EmptyMap == [k \in {} |-> Nullopt]
Put(m, k, v) == [x \in DOMAIN m \cup {k} |-> IF x = k THEN v ELSE m[x]]
Erase(m, k) == [x \in DOMAIN m \ {k} |-> m[x]]
Find(m, k) == IF k \in DOMAIN m THEN Some(m[k]) ELSE Nullopt

\* the two maps and the number of instances created so far
Registry(known, map, alloc) == [known |-> known, map |-> map, alloc |-> alloc]
Current == Registry(knownPaints_, paintMap_, allocated)

getPaint(st, userName) == Find(st.map, userName)

\* addPaint that overwrites a known id
addPaintOverwrite(st, paintJson) ==
    LET paint == parsePaint(paintJson, st.alloc + 1)
    IN  IF ~HasValue(paint) THEN st
        ELSE Registry(Put(st.known, paintJson.id, Value(paint)), st.map, st.alloc + 1)

\* addPaint that leaves an empty placeholder under the id of a record that
\* does not parse
addPaintReserves(st, paintJson) ==
    LET paintID == paintJson.id
        paint == parsePaint(paintJson, st.alloc + 1)
    IN  IF paintID \in DOMAIN st.known THEN st
        ELSE IF ~HasValue(paint)
        THEN Registry(Put(st.known, paintID, [inst |-> 0, id |-> paintID, name |-> ""]),
                      st.map, st.alloc)
        ELSE Registry(Put(st.known, paintID, Value(paint)), st.map, st.alloc + 1)

addPaint(st, paintJson) ==
    LET paintID == paintJson.id
        paint == parsePaint(paintJson, st.alloc + 1)
    IN  IF paintID \in DOMAIN st.known THEN st
        ELSE IF ~HasValue(paint) THEN st
        ELSE Registry(Put(st.known, paintID, Value(paint)), st.map, st.alloc + 1)

\* assignPaintToUser that keeps an existing assignment
assignPaintToUserKeep(st, paintID, userName) ==
    IF paintID \in DOMAIN st.known /\ userName \notin DOMAIN st.map
    THEN Registry(st.known, Put(st.map, userName, st.known[paintID]), st.alloc)
    ELSE st

\* assignPaintToUser that moves the paint out of the known paints
assignPaintToUserMoves(st, paintID, userName) ==
    IF paintID \in DOMAIN st.known
    THEN Registry(Erase(st.known, paintID), Put(st.map, userName, st.known[paintID]),
                  st.alloc)
    ELSE st

assignPaintToUser(st, paintID, userName) ==
    IF paintID \in DOMAIN st.known
    THEN Registry(st.known, Put(st.map, userName, st.known[paintID]), st.alloc)
    ELSE st

\* clearPaintFromUser without the id comparison
clearPaintFromUserAnyId(st, paintID, userName) ==
    IF userName \in DOMAIN st.map
    THEN Registry(st.known, Erase(st.map, userName), st.alloc)
    ELSE st

\* clearPaintFromUser that also drops the cleared paint from the known paints
clearPaintFromUserEvicts(st, paintID, userName) ==
    IF userName \in DOMAIN st.map /\ st.map[userName].id = paintID
    THEN Registry(Erase(st.known, paintID), Erase(st.map, userName), st.alloc)
    ELSE st

clearPaintFromUser(st, paintID, userName) ==
    IF userName \in DOMAIN st.map /\ st.map[userName].id = paintID
    THEN Registry(st.known, Erase(st.map, userName), st.alloc)
    ELSE st

(***************************************************************************)
(* The success handler of loadSeventvPaints.  One record of the "paints"   *)
(* array makes, when it parses, the map writes of lines 219 and 223 in     *)
(* this order; the handler makes the writes of its records in order.       *)
(***************************************************************************)
KnownWrite(id, paint) == [map |-> "knownPaints_", key |-> id, paint |-> paint]
UserWrite(user, paint) == [map |-> "paintMap_", key |-> user, paint |-> paint]

\* writes that store the paint under the record's name
recordWritesKeyedByName(paintJson, paint) ==
    <<KnownWrite(paintJson.name, paint)>>
        \o [i \in 1..Len(paintJson.users) |-> UserWrite(paintJson.users[i], paint)]

recordWrites(paintJson, paint) ==
    <<KnownWrite(paintJson.id, paint)>>
        \o [i \in 1..Len(paintJson.users) |-> UserWrite(paintJson.users[i], paint)]

applyWrite(st, w) ==
    IF w.map = "knownPaints_"
    THEN Registry(Put(st.known, w.key, w.paint), st.map, st.alloc)
    ELSE Registry(st.known, Put(st.map, w.key, w.paint), st.alloc)

RECURSIVE applyWrites(_, _)
applyWrites(st, ws) ==
    IF ws = <<>> THEN st ELSE applyWrites(applyWrite(st, Head(ws)), Tail(ws))

\* an iteration that first revokes the record's id from every user holding it
loopBodyRevokes(st, paintJson) ==
    LET paint == parsePaint(paintJson, st.alloc + 1)
        kept == {u \in DOMAIN st.map : st.map[u].id # paintJson.id}
    IN  IF ~HasValue(paint) THEN st
        ELSE applyWrites(Registry(st.known, [u \in kept |-> st.map[u]], st.alloc + 1),
                         recordWrites(paintJson, Value(paint)))

\* an iteration whose record's users replace every earlier assignment
loopBodyReplacesAssignments(st, paintJson) ==
    LET paint == parsePaint(paintJson, st.alloc + 1)
    IN  IF ~HasValue(paint) THEN st
        ELSE applyWrites(Registry(st.known, EmptyMap, st.alloc + 1),
                         recordWrites(paintJson, Value(paint)))

\* an iteration that keeps the paint of an id that is already known
loopBodyKeepKnown(st, paintJson) ==
    LET paint == parsePaint(paintJson, st.alloc + 1)
    IN  IF ~HasValue(paint) THEN st
        ELSE IF paintJson.id \in DOMAIN st.known
        THEN applyWrites(Registry(st.known, st.map, st.alloc + 1),
                         Tail(recordWrites(paintJson, Value(paint))))
        ELSE applyWrites(Registry(st.known, st.map, st.alloc + 1),
                         recordWrites(paintJson, Value(paint)))

\* lines 210-224: one iteration of the loop over root["paints"]
loopBody(st, paintJson) ==
    LET paint == parsePaint(paintJson, st.alloc + 1)
    IN  IF ~HasValue(paint) THEN st
        ELSE applyWrites(Registry(st.known, st.map, st.alloc + 1),
                         recordWrites(paintJson, Value(paint)))

RECURSIVE onSuccessBreak(_, _)
\* a handler that leaves the loop at the first record that does not parse
onSuccessBreak(st, paints) ==
    IF paints = <<>> THEN st
    ELSE IF ~HasValue(parsePaint(Head(paints), st.alloc + 1)) THEN st
    ELSE onSuccessBreak(loopBody(st, Head(paints)), Tail(paints))

RECURSIVE onSuccess(_, _)
\* lines 206-227: the loop over the whole array, under one unique_lock
onSuccess(st, paints) ==
    IF paints = <<>> THEN st ELSE onSuccess(loopBody(st, Head(paints)), Tail(paints))

(***************************************************************************)
(* Inputs.                                                                 *)
(***************************************************************************)
PaintIds == {"p1", "p2"}
Users == {"u1", "u2"}
Names == {"n1", "n2"}

Descriptor(id, name, function, image, users) ==
    [name |-> name, id |-> id, function |-> function, image |-> image,
     color |-> JsonNull, stops |-> <<>>, users |-> users]

\* what the registry is fed: a record that parses, one whose image does not
\* resolve, one whose function is not recognized
RegistryFunctions == {"linear-gradient", "url", "unknown-thing"}

\* the payloads of addPaint (they carry no "users")
AddRecords ==
    {Descriptor(id, name, f, NullImage, <<>>) :
        id \in PaintIds, name \in Names, f \in RegistryFunctions}

\* the records of a catalog response: p1 listing both users, p1 listing
\* nobody, p2 listing u2, and a record of p1 whose function is not recognized
CatalogRecords ==
    {Descriptor("p1", "n2", "linear-gradient", NullImage, <<"u1", "u2">>),
     Descriptor("p1", "n2", "linear-gradient", NullImage, <<>>),
     Descriptor("p2", "n2", "linear-gradient", NullImage, <<"u2">>),
     Descriptor("p1", "n2", "unknown-thing", NullImage, <<"u1", "u2">>)}

SeqsUpTo(S, n) == UNION {[1..k -> S] : k \in 0..n}
Catalogs == SeqsUpTo(CatalogRecords, MaxBatch)

(***************************************************************************)
(* mutex_ is a std::shared_mutex: one writer or any number of readers.     *)
(***************************************************************************)
Threads == {"t1", "t2"}

\* a shared_lock that does not wait for the writer
SharedLockIgnoresWriter == TRUE

\* std::shared_lock can be taken
SharedLockAvailable == ~mutex_.writer
\* std::unique_lock can be taken
UniqueLockAvailable == ~mutex_.writer /\ mutex_.readers = {}

Idle == [pc |-> "idle"]

Init ==
    /\ knownPaints_ = EmptyMap
    /\ paintMap_ = EmptyMap
    /\ allocated = 0
    /\ last = [op |-> "none"]
    /\ mutex_ = [writer |-> FALSE, readers |-> {}]
    /\ load = Idle
    /\ get = [t \in Threads |-> Idle]
    /\ committed = EmptyMap
    /\ urlQuery = <<>>
    /\ pending = 0

\* the registry after a handler that ran under the unique_lock and released it;
\* Store bounds the number of instances a run creates
Commit(st) ==
    /\ knownPaints_' = st.known
    /\ paintMap_' = st.map
    /\ allocated' = st.alloc
    /\ committed' = st.map

Store(st) ==
    /\ st.alloc <= MaxPaints
    /\ Commit(st)

(***************************************************************************)
(* Spec: every handler as one step.                                        *)
(***************************************************************************)
GetPaint(userName) ==
    /\ SharedLockAvailable
    /\ last' = [op |-> "getPaint", userName |-> userName,
                result |-> getPaint(Current, userName)]
    /\ UNCHANGED <<knownPaints_, paintMap_, allocated, mutex_, load, get, committed,
                   urlQuery, pending>>

\* a handler's lock, body and unlock as one step
AddPaintLocked(paintJson) ==
    /\ UniqueLockAvailable
    /\ Store(addPaint(Current, paintJson))
    /\ UNCHANGED <<mutex_, load, get>>

AssignPaintToUserLocked(paintID, userName) ==
    /\ UniqueLockAvailable
    /\ Store(assignPaintToUser(Current, paintID, userName))
    /\ UNCHANGED <<mutex_, load, get>>

ClearPaintFromUserLocked(paintID, userName) ==
    /\ UniqueLockAvailable
    /\ Store(clearPaintFromUser(Current, paintID, userName))
    /\ UNCHANGED <<mutex_, load, get>>

\* a handler that empties both maps before it merges the response
OnSuccessLockedClearsFirst(paints) ==
    /\ UniqueLockAvailable
    /\ Store(onSuccess(Registry(EmptyMap, EmptyMap, allocated), paints))
    /\ UNCHANGED <<mutex_, load, get>>

OnSuccessLocked(paints) ==
    /\ UniqueLockAvailable
    /\ Store(onSuccess(Current, paints))
    /\ UNCHANGED <<mutex_, load, get>>

AddPaint(paintJson) ==
    /\ AddPaintLocked(paintJson)
    /\ UNCHANGED loaderVars
    /\ last' = [op |-> "addPaint", paintJson |-> paintJson,
                inserted |-> (addPaint(Current, paintJson).alloc # allocated)]

AssignPaintToUser(paintID, userName) ==
    /\ AssignPaintToUserLocked(paintID, userName)
    /\ UNCHANGED loaderVars
    /\ last' = [op |-> "assignPaintToUser", paintID |-> paintID, userName |-> userName]

ClearPaintFromUser(paintID, userName) ==
    /\ ClearPaintFromUserLocked(paintID, userName)
    /\ UNCHANGED loaderVars
    /\ last' = [op |-> "clearPaintFromUser", paintID |-> paintID, userName |-> userName,
                it |-> Find(paintMap_, userName)]

\* the success handler of loadSeventvPaints on a response with this "paints" array
OnSuccess(paints) ==
    /\ OnSuccessLocked(paints)
    /\ UNCHANGED loaderVars
    /\ last' = [op |-> "onSuccess", paints |-> paints]

Next ==
    \/ \E userName \in Users : GetPaint(userName)
    \/ \E paintJson \in AddRecords : AddPaint(paintJson)
    \/ \E paintID \in PaintIds, userName \in Users : AssignPaintToUser(paintID, userName)
    \/ \E paintID \in PaintIds, userName \in Users : ClearPaintFromUser(paintID, userName)
    \/ \E paints \in Catalogs : OnSuccess(paints)

Spec == Init /\ [][Next]_vars

(***************************************************************************)
(* Properties of Spec.  In a step, the unprimed variables are the registry *)
(* before the handler ran and last' names the handler and its arguments.   *)
(***************************************************************************)
\* the six spellings the specification accepts for "function"
RecognizedFunctions ==
    {"LINEAR_GRADIENT", "linear-gradient", "RADIAL_GRADIENT", "radial-gradient",
     "URL", "url"}

RemoveAt(seq, i) == SubSeq(seq, 1, i - 1) \o SubSeq(seq, i + 1, Len(seq))

\* C1: clearPaintFromUser(paintID, userName) removes userName's assignment
\* exactly when userName has one and its paint's id is paintID (every other
\* assignment stays); otherwise paintMap_ is unchanged, so a user holding a
\* paint of another id still gets that same paint from getPaint.
C1_ClearOnlyMatching ==
    [][last'.op = "clearPaintFromUser" =>
        LET u == last'.userName
            p == last'.paintID
        IN  /\ knownPaints_' = knownPaints_
            /\ IF u \in DOMAIN paintMap_ /\ paintMap_[u].id = p
               THEN /\ DOMAIN paintMap_' = DOMAIN paintMap_ \ {u}
                    /\ \A v \in DOMAIN paintMap_' : paintMap_'[v] = paintMap_[v]
               ELSE paintMap_' = paintMap_
            /\ (u \in DOMAIN paintMap_ /\ paintMap_[u].id # p)
                  => getPaint(Current', u) = Some(paintMap_[u])]_vars

\* a stale clear has run: the user held a paint of another id and still holds it
C1_Witness ==
    /\ last.op = "clearPaintFromUser"
    /\ HasValue(last.it)
    /\ Value(last.it).id # last.paintID
    /\ getPaint(Current, last.userName) = last.it

\* C2: assignPaintToUser(paintID, userName) leaves the whole registry unchanged
\* when paintID is not a key of knownPaints_; otherwise getPaint(userName)
\* afterwards returns exactly knownPaints_[paintID], whatever userName held.
C2_AssignKnownOnly ==
    [][last'.op = "assignPaintToUser" =>
        LET u == last'.userName
            p == last'.paintID
        IN  IF p \notin DOMAIN knownPaints_
            THEN /\ knownPaints_' = knownPaints_
                 /\ paintMap_' = paintMap_
                 /\ getPaint(Current', u) = getPaint(Current, u)
            ELSE /\ knownPaints_' = knownPaints_
                 /\ getPaint(Current', u) = Some(knownPaints_[p])]_vars

\* an assignment of a known id has run and the user now holds that instance
C2_Witness ==
    /\ last.op = "assignPaintToUser"
    /\ last.paintID \in DOMAIN knownPaints_
    /\ getPaint(Current, last.userName) = Some(knownPaints_[last.paintID])

\* C3: addPaint of a record whose id is already a key of knownPaints_ changes
\* neither map; assigning that id afterwards yields the paint that was there,
\* and when the step before was the addPaint that inserted the id, that paint
\* carries the first record's name.
C3_AddFirstWriterWins ==
    [][(last'.op = "addPaint" /\ last'.paintJson.id \in DOMAIN knownPaints_) =>
        LET id == last'.paintJson.id
        IN  /\ knownPaints_' = knownPaints_
            /\ paintMap_' = paintMap_
            /\ \A u \in Users :
                 getPaint(assignPaintToUser(Current', id, u), u) = Some(knownPaints_[id])
            /\ (last.op = "addPaint" /\ last.inserted /\ last.paintJson.id = id)
                  => \A u \in Users :
                       Value(getPaint(assignPaintToUser(Current', id, u), u)).name
                           = last.paintJson.name]_vars

\* a second, parseable record of a known id and another name was added: no insert
C3_Witness ==
    /\ last.op = "addPaint"
    /\ ~last.inserted
    /\ last.paintJson.function \in RecognizedFunctions
    /\ last.paintJson.id \in DOMAIN knownPaints_
    /\ knownPaints_[last.paintJson.id].name # last.paintJson.name

\* C4: every value of paintMap_ is the very instance some key of knownPaints_
\* currently holds.
C4_AssignedInstanceIsKnown ==
    \A u \in DOMAIN paintMap_ :
        \E p \in DOMAIN knownPaints_ : knownPaints_[p] = paintMap_[u]

\* record i of the array parsed
Parsed(paints, i) == HasValue(parsePaint(paints[i], 1))
\* no later parsed record of the array lists the user
NotReassigned(paints, i, u) ==
    \A j \in (i + 1)..Len(paints) :
        Parsed(paints, j) => \A k \in 1..Len(paints[j].users) : paints[j].users[k] # u

\* C5: after the handler, the users of a parsed record that no later record
\* reassigns all hold one instance, of the record's id, and it is the
\* instance knownPaints_ holds under that id.
C5_BatchUsersShareKnownInstance ==
    last.op = "onSuccess" =>
        \A i \in 1..Len(last.paints) :
            Parsed(last.paints, i) =>
                \A k \in 1..Len(last.paints[i].users) :
                    LET u == last.paints[i].users[k]
                        p == last.paints[i].id
                    IN  NotReassigned(last.paints, i, u) =>
                            /\ HasValue(getPaint(Current, u))
                            /\ Value(getPaint(Current, u)).id = p
                            /\ p \in DOMAIN knownPaints_
                            /\ Value(getPaint(Current, u)) = knownPaints_[p]

\* C8: a record of the array whose function is not recognized changes
\* nothing when its turn comes, and the handler leaves the registry as it
\* leaves it for the array without that record.
C8_UnrecognizedRecordSkipped ==
    [][last'.op = "onSuccess" =>
        \A i \in 1..Len(last'.paints) :
            last'.paints[i].function \notin RecognizedFunctions =>
                LET before == onSuccess(Current, SubSeq(last'.paints, 1, i - 1))
                IN  /\ loopBody(before, last'.paints[i]) = before
                    /\ Current' = onSuccess(Current, RemoveAt(last'.paints, i))]_vars

\* a response with an unrecognized record followed by a record that was merged
C8_Witness ==
    /\ last.op = "onSuccess"
    /\ \E i, j \in 1..Len(last.paints) :
          /\ i < j
          /\ last.paints[i].function \notin RecognizedFunctions
          /\ Parsed(last.paints, j)
          /\ last.paints[j].id \in DOMAIN knownPaints_
          /\ knownPaints_[last.paints[j].id].inst = allocated
          /\ \A k \in 1..Len(last.paints[j].users) :
                getPaint(Current, last.paints[j].users[k])
                    = Some(knownPaints_[last.paints[j].id])

(***************************************************************************)
(* SpecParse: the parser functions applied to bounded inputs, one call per  *)
(* behaviour.  last holds the call and what it returned.                   *)
(***************************************************************************)
\* channel values: the corners and the sign bit of a byte; over all triples
\* of extreme values each channel also runs through its whole range
ChannelSamples == {0, 1, 127, 128, 255}
ChannelExtremes == {0, 255}
ChannelRange == 0..(Byte - 1)
ColorInputs ==
    (ChannelSamples \X ChannelSamples \X ChannelSamples \X ChannelSamples)
        \cup (ChannelRange \X ChannelExtremes \X ChannelExtremes \X ChannelExtremes)
        \cup (ChannelExtremes \X ChannelRange \X ChannelExtremes \X ChannelExtremes)
        \cup (ChannelExtremes \X ChannelExtremes \X ChannelRange \X ChannelExtremes)
        \cup (ChannelExtremes \X ChannelExtremes \X ChannelExtremes \X ChannelRange)

\* the word r*2^24 + g*2^16 + b*2^8 + a
Pack(r, g, b, a) == Word((r * Byte) + g, (b * Byte) + a)

StopColor == Pack(255, 0, 128, 255)
\* 0.0, 0.5 and 1.0
StopPositions == {0, HalfPosition, PositionScale}
StopRecords == [at : StopPositions, color : {StopColor}]
StopLists == SeqsUpTo(StopRecords, MaxStops)

Functions ==
    RecognizedFunctions
        \cup {"", "unknown-thing", "Url", "linear_gradient", "RADIAL-GRADIENT"}
Images == {NullImage, "image"}
ParseRecords ==
    {[name |-> "n1", id |-> "p1", function |-> f, image |-> img, color |-> c,
      stops |-> st, users |-> <<>>] :
        f \in Functions, img \in Images, c \in {JsonNull, JsonInt(StopColor)},
        st \in {<<>>, <<[at |-> HalfPosition, color |-> StopColor],
                        [at |-> HalfPosition, color |-> StopColor]>>}}

RgbaToQColorCall(c) ==
    /\ last.op = "none"
    /\ last' = [op |-> "rgbaToQColor", red |-> c[1], green |-> c[2], blue |-> c[3],
                alpha |-> c[4], result |-> rgbaToQColor(Pack(c[1], c[2], c[3], c[4]))]
    /\ UNCHANGED <<knownPaints_, paintMap_, allocated, mutex_, load, get, committed,
                   urlQuery, pending>>

ParsePaintStopsCall(stops) ==
    /\ last.op = "none"
    /\ last' = [op |-> "parsePaintStops", stops |-> stops,
                result |-> parsePaintStops(stops)]
    /\ UNCHANGED <<knownPaints_, paintMap_, allocated, mutex_, load, get, committed,
                   urlQuery, pending>>

ParsePaintCall(paintJson) ==
    /\ last.op = "none"
    /\ last' = [op |-> "parsePaint", paintJson |-> paintJson,
                result |-> parsePaint(paintJson, allocated + 1)]
    /\ UNCHANGED <<knownPaints_, paintMap_, allocated, mutex_, load, get, committed,
                   urlQuery, pending>>

NextParse ==
    \/ \E c \in ColorInputs : RgbaToQColorCall(c)
    \/ \E stops \in StopLists : ParsePaintStopsCall(stops)
    \/ \E paintJson \in ParseRecords : ParsePaintCall(paintJson)

SpecParse == Init /\ [][NextParse]_vars

\* C7: in the parsed stops, a stop whose record has the same `at` as the
\* record before it lies strictly after the stop before it (two equal
\* positions: the second is the first plus the nudge; three or more: the
\* positions keep increasing).
C7_EqualStopsStrictlyIncrease ==
    last.op = "parsePaintStops" =>
        \A i \in 1..(Len(last.stops) - 1) :
            last.stops[i].at = last.stops[i + 1].at =>
                last.result[i].position < last.result[i + 1].position

\* the variant each accepted spelling names
VariantOf(function) ==
    CASE function \in {"LINEAR_GRADIENT", "linear-gradient"} -> "LinearGradientPaint"
      [] function \in {"RADIAL_GRADIENT", "radial-gradient"} -> "RadialGradientPaint"
      [] function \in {"URL", "url"} -> "UrlPaint"

\* C9: parsePaint yields a paint exactly when "function" is one of the six
\* accepted spellings and, for URL/url, the image resolver returned a handle;
\* the paint is of the variant the spelling names.
C9_VariantDispatch ==
    last.op = "parsePaint" =>
        LET f == last.paintJson.function
            expected ==
                /\ f \in RecognizedFunctions
                /\ f \in {"URL", "url"} => last.paintJson.image # NullImage
        IN  /\ HasValue(last.result) <=> expected
            /\ HasValue(last.result) =>
                  /\ Value(last.result).kind = VariantOf(f)
                  /\ Value(last.result).id = last.paintJson.id
                  /\ Value(last.result).name = last.paintJson.name

\* a record spelled "url" whose image resolved was parsed into a UrlPaint
C9_Witness ==
    /\ last.op = "parsePaint"
    /\ last.paintJson.function = "url"
    /\ HasValue(last.result)
    /\ Value(last.result).kind = "UrlPaint"

\* C10: decoding the word r*2^24 + g*2^16 + b*2^8 + a yields (r, g, b, a).
C10_ColorRoundTrip ==
    last.op = "rgbaToQColor" =>
        last.result = [red |-> last.red, green |-> last.green,
                       blue |-> last.blue, alpha |-> last.alpha]

\* a color with four different channels, the top bit of the word set, was decoded
C10_Witness ==
    /\ last.op = "rgbaToQColor"
    /\ last.red = 255 /\ last.green = 128 /\ last.blue = 1 /\ last.alpha = 127
    /\ last.result.red = 255 /\ last.result.green = 128
    /\ last.result.blue = 1 /\ last.result.alpha = 127

(***************************************************************************)
(* SpecConc: threads calling getPaint while the network callback runs the  *)
(* success handler.  getPaint is split into lock (line 138), find (140)    *)
(* and return/unlock (143-146); the handler into lock (206), the parse of  *)
(* a record (212), each map write (219, 223) and unlock (227).  The other  *)
(* writers make one map write under their lock and stay one step.          *)
(* committed is paintMap_ as the last writer to unlock left it.            *)
(***************************************************************************)
GetLock(t, userName) ==
    /\ get[t].pc = "idle"
    /\ SharedLockAvailable
    /\ mutex_' = [mutex_ EXCEPT !.readers = @ \cup {t}]
    /\ get' = [get EXCEPT ![t] = [pc |-> "locked", userName |-> userName]]
    /\ UNCHANGED <<knownPaints_, paintMap_, allocated, last, load, committed,
                   urlQuery, pending>>

GetFind(t) ==
    /\ get[t].pc = "locked"
    /\ get' = [get EXCEPT ![t] = [pc |-> "found", userName |-> get[t].userName,
                                  result |-> getPaint(Current, get[t].userName)]]
    /\ UNCHANGED <<knownPaints_, paintMap_, allocated, last, mutex_, load, committed,
                   urlQuery, pending>>

GetReturn(t) ==
    /\ get[t].pc = "found"
    /\ mutex_' = [mutex_ EXCEPT !.readers = @ \ {t}]
    /\ get' = [get EXCEPT ![t] = Idle]
    /\ UNCHANGED <<knownPaints_, paintMap_, allocated, last, load, committed,
                   urlQuery, pending>>

LoadLock(paints) ==
    /\ load.pc = "idle"
    /\ UniqueLockAvailable
    /\ onSuccess(Current, paints).alloc <= MaxPaints
    /\ mutex_' = [mutex_ EXCEPT !.writer = TRUE]
    /\ load' = [pc |-> "loop", paints |-> paints, i |-> 1, writes |-> <<>>,
                start |-> Current]
    /\ UNCHANGED <<knownPaints_, paintMap_, allocated, last, get, committed,
                   urlQuery, pending>>

\* lines 210-217: the next record is parsed; its writes are pending
LoadParse ==
    /\ load.pc = "loop"
    /\ load.writes = <<>>
    /\ load.i <= Len(load.paints)
    /\ LET paintJson == load.paints[load.i]
           paint == parsePaint(paintJson, allocated + 1)
       IN  IF ~HasValue(paint)
           THEN /\ load' = [load EXCEPT !.i = @ + 1]
                /\ UNCHANGED allocated
           ELSE /\ load' = [load EXCEPT !.i = @ + 1,
                                        !.writes = recordWrites(paintJson, Value(paint))]
                /\ allocated' = allocated + 1
    /\ UNCHANGED <<knownPaints_, paintMap_, last, mutex_, get, committed,
                   urlQuery, pending>>

\* line 219 or line 223: one map write
LoadWrite ==
    /\ load.pc = "loop"
    /\ load.writes # <<>>
    /\ LET st == applyWrite(Current, Head(load.writes))
       IN  /\ knownPaints_' = st.known
           /\ paintMap_' = st.map
    /\ load' = [load EXCEPT !.writes = Tail(@)]
    /\ UNCHANGED <<allocated, last, mutex_, get, committed,
                   urlQuery, pending>>

\* line 227: the handler returns and the unique_lock is released
LoadUnlock ==
    /\ load.pc = "loop"
    /\ load.writes = <<>>
    /\ load.i > Len(load.paints)
    /\ mutex_' = [mutex_ EXCEPT !.writer = FALSE]
    /\ load' = Idle
    /\ committed' = paintMap_
    /\ UNCHANGED <<knownPaints_, paintMap_, allocated, last, get,
                   urlQuery, pending>>

NextConc ==
    \/ \E t \in Threads, userName \in Users : GetLock(t, userName)
    \/ \E t \in Threads : GetFind(t)
    \/ \E t \in Threads : GetReturn(t)
    \/ \E paints \in Catalogs : LoadLock(paints)
    \/ LoadParse
    \/ LoadWrite
    \/ LoadUnlock
    \/ \E paintID \in PaintIds, userName \in Users :
          AssignPaintToUserLocked(paintID, userName) /\ UNCHANGED <<last, urlQuery, pending>>
    \/ \E paintID \in PaintIds, userName \in Users :
          ClearPaintFromUserLocked(paintID, userName) /\ UNCHANGED <<last, urlQuery, pending>>

SpecConc == Init /\ [][NextConc]_vars

\* what a lookup of the user may return now: the value in the registry as the
\* last completed write left it or, while the handler is running, the value
\* in the registry the handler will leave
Visible(userName) ==
    {Find(committed, userName)}
        \cup (IF load.pc = "idle" THEN {}
              ELSE {getPaint(onSuccess(load.start, load.paints), userName)})

\* C6: the value a getPaint has found is the value of the registry before or
\* after the write it runs beside, never a value of a state in between.
C6_LookupSeesNoPartialWrite ==
    \A t \in Threads : get[t].pc = "found" => get[t].result \in Visible(get[t].userName)

\* the stepwise handler ends in the registry the one-step handler computes
LoadStepsAgree ==
    (load.pc = "loop" /\ load.writes = <<>> /\ load.i > Len(load.paints))
        => Current = onSuccess(load.start, load.paints)

\* both threads are inside getPaint at once and one has found a paint that a
\* catalog of two parsed records assigned
C6_Witness ==
    /\ mutex_.readers = Threads
    /\ \E t \in Threads :
          /\ get[t].pc = "found"
          /\ HasValue(get[t].result)
          /\ Value(get[t].result).inst = 2


(***************************************************************************)
(* Further properties of Spec.                                             *)
(***************************************************************************)
\* C11: once knownPaints_[id] holds a paint, every later step of the registry
\* (addPaint, assignPaintToUser, clearPaintFromUser, the catalog handler)
\* leaves that paint under that id.
C11_KnownPaintNeverReplaced ==
    [][\A id \in DOMAIN knownPaints_ :
          /\ id \in DOMAIN knownPaints_'
          /\ knownPaints_'[id] = knownPaints_[id]]_vars


\* C13: a user that has an assignment keeps one across every step except
\* clearPaintFromUser(paintID, userName) for that user with paintID the id of
\* the user's current paint; the catalog handler revokes nothing.
C13_OnlyMatchingClearRemoves ==
    [][\A u \in DOMAIN paintMap_ :
          u \notin DOMAIN paintMap_' =>
              /\ last'.op = "clearPaintFromUser"
              /\ last'.userName = u
              /\ last'.paintID = paintMap_[u].id]_vars

Lists(paintJson, u) == \E k \in 1..Len(paintJson.users) : paintJson.users[k] = u

\* the handler merged a parsed record of a paint id that a user absent from the
\* whole array still holds
C13_Witness ==
    /\ last.op = "onSuccess"
    /\ \E u \in DOMAIN paintMap_ :
          /\ \A i \in 1..Len(last.paints) : ~Lists(last.paints[i], u)
          /\ \E i \in 1..Len(last.paints) :
                /\ Parsed(last.paints, i)
                /\ last.paints[i].id = paintMap_[u].id

\* C14: no step of any operation removes a key of knownPaints_, and
\* assignPaintToUser of an id that is a key of knownPaints_ assigns a paint of
\* that id; so an id once known stays assignable.
C14_KnownIdsOnlyGrow ==
    [][/\ DOMAIN knownPaints_ \subseteq DOMAIN knownPaints_'
       /\ (last'.op = "assignPaintToUser" /\ last'.paintID \in DOMAIN knownPaints_) =>
              /\ last'.userName \in DOMAIN paintMap_'
              /\ paintMap_'[last'.userName].id = last'.paintID]_vars

\* a clear erased the last assignment of a paint and its id is still known
C14_Witness ==
    /\ last.op = "clearPaintFromUser"
    /\ HasValue(last.it)
    /\ Value(last.it).id = last.paintID
    /\ last.userName \notin DOMAIN paintMap_
    /\ \A u \in DOMAIN paintMap_ : paintMap_[u].id # last.paintID
    /\ last.paintID \in DOMAIN knownPaints_

\* C16: assignPaintToUser and clearPaintFromUser leave knownPaints_ alone and
\* create no paint, addPaint leaves paintMap_ alone, getPaint leaves both maps
\* alone.
C16_IncrementalFrame ==
    [][/\ last'.op \in {"assignPaintToUser", "clearPaintFromUser"} =>
              /\ knownPaints_' = knownPaints_
              /\ allocated' = allocated
       /\ last'.op = "addPaint" => paintMap_' = paintMap_
       /\ last'.op = "getPaint" =>
              /\ knownPaints_' = knownPaints_
              /\ paintMap_' = paintMap_]_vars

\* an assignment took effect while two ids were known
C16_Witness ==
    /\ last.op = "assignPaintToUser"
    /\ last.userName \in DOMAIN paintMap_
    /\ paintMap_[last.userName].id = last.paintID
    /\ DOMAIN knownPaints_ = PaintIds

\* the number of records among the first i that parse: the loop has created
\* that many instances when it has handled record i
ParsedUpTo(paints, i) == Cardinality({j \in 1..i : Parsed(paints, j)})
\* the paint the loop makes of record i when `alloc` instances existed before
MadeOf(paints, i, alloc) == Value(parsePaint(paints[i], alloc + ParsedUpTo(paints, i)))
Last(S) == CHOOSE i \in S : \A j \in S : j <= i

\* C17: after the handler, for every parsed record of id p, knownPaints_[p] is
\* the paint made of the last parsed record of id p, whether or not p was known
\* before; every user a parsed record lists holds the paint made of the last
\* parsed record that lists that user.
C17_BulkLastWriteWins ==
    [][last'.op = "onSuccess" =>
        LET paints == last'.paints
            parsed == {i \in 1..Len(paints) : Parsed(paints, i)}
        IN  \A i \in parsed :
               /\ LET p == paints[i].id
                      l == Last({j \in parsed : paints[j].id = p})
                  IN  /\ p \in DOMAIN knownPaints_'
                      /\ knownPaints_'[p] = MadeOf(paints, l, allocated)
               /\ \A k \in 1..Len(paints[i].users) :
                     LET u == paints[i].users[k]
                         l == Last({j \in parsed : Lists(paints[j], u)})
                     IN  /\ u \in DOMAIN paintMap_'
                         /\ paintMap_'[u] = MadeOf(paints, l, allocated)]_vars

\* the handler parsed two records of one id; knownPaints_ holds the instance
\* made last, while a user outside the array still holds an instance of that
\* id from before the merge
C17_Witness ==
    /\ last.op = "onSuccess"
    /\ \E i, j \in 1..Len(last.paints) :
          /\ i < j
          /\ Parsed(last.paints, i)
          /\ Parsed(last.paints, j)
          /\ last.paints[i].id = last.paints[j].id
          /\ knownPaints_[last.paints[j].id].inst = allocated
          /\ \E u \in DOMAIN paintMap_ :
                /\ \A n \in 1..Len(last.paints) : ~Lists(last.paints[n], u)
                /\ paintMap_[u].id = last.paints[j].id
                /\ paintMap_[u].inst <= allocated - ParsedUpTo(last.paints, Len(last.paints))

\* C19: every entry of knownPaints_ sits under the key that is the stored
\* paint's own id, and the id of every assigned paint is a key of knownPaints_.
C19_IdConsistency ==
    /\ \A id \in DOMAIN knownPaints_ : knownPaints_[id].id = id
    /\ \A u \in DOMAIN paintMap_ : paintMap_[u].id \in DOMAIN knownPaints_

\* both ids are known and a user holds an instance that knownPaints_ has since
\* replaced under the same id
C19_Witness ==
    /\ DOMAIN knownPaints_ = PaintIds
    /\ \E u \in DOMAIN paintMap_ :
          /\ paintMap_[u].id \in DOMAIN knownPaints_
          /\ paintMap_[u].inst # knownPaints_[paintMap_[u].id].inst

\* C20: addPaint of a record that does not parse (unrecognized function, or an
\* image that does not resolve) changes neither map; when its id was unknown
\* it is still unknown, so addPaint of any parseable record of that id then
\* inserts that record's paint and assignPaintToUser of the id assigns it.
C20_FailedAddReservesNothing ==
    [][(last'.op = "addPaint" /\ ~HasValue(parsePaint(last'.paintJson, 1))) =>
        LET id == last'.paintJson.id
            after == Registry(knownPaints_', paintMap_', allocated')
        IN  /\ knownPaints_' = knownPaints_
            /\ paintMap_' = paintMap_
            /\ id \notin DOMAIN knownPaints_ =>
                  /\ id \notin DOMAIN knownPaints_'
                  /\ \A r \in AddRecords :
                        (r.id = id /\ HasValue(parsePaint(r, 1))) =>
                            LET added == addPaint(after, r)
                            IN  /\ id \in DOMAIN added.known
                                /\ added.known[id] = Value(parsePaint(r, allocated + 1))
                                /\ \A u \in Users :
                                      getPaint(assignPaintToUser(added, id, u), u)
                                          = Some(added.known[id])]_vars

\* addPaint dropped a record whose image does not resolve; its id is unknown
\* while the registry holds another paint and an assignment
C20_Witness ==
    /\ last.op = "addPaint"
    /\ ~last.inserted
    /\ last.paintJson.function = "url"
    /\ last.paintJson.id \notin DOMAIN knownPaints_
    /\ DOMAIN knownPaints_ # {}
    /\ DOMAIN paintMap_ # {}

(***************************************************************************)
(* SpecLoad: loadSeventvPaints.  A call appends to the static urlQuery     *)
(* (line 198), sets it on the static url (200) and sends the request; the  *)
(* request then fails in the transport (no handler is registered for that, *)
(* nothing runs) or its response reaches the success handler.  A response  *)
(* body is invalid JSON, or an object whose "paints" is absent, is not an  *)
(* array, or is an array of records.                                       *)
(***************************************************************************)
\* loadSeventvPaints calls over a run
MaxLoads == 2

QueryItem == <<"user_identifier", "login">>

InvalidBody == [json |-> "invalid"]
ObjectBody(paints) == [json |-> "object", paints |-> paints]
Undefined == [type |-> "undefined"]
JsonString == [type |-> "string"]
JsonArray(items) == [type |-> "array", items |-> items]

MalformedBodies == {InvalidBody, ObjectBody(Undefined), ObjectBody(JsonString)}
Bodies == MalformedBodies \cup {ObjectBody(JsonArray(c)) : c \in Catalogs}

\* result.parseJson(): the object of the body, the empty object when it is none
parseJson(body) == IF body.json = "object" THEN body ELSE ObjectBody(Undefined)
\* QJsonValue::toArray(): the array, the empty array when the value is none
toArray(value) == IF value.type = "array" THEN value.items ELSE <<>>
\* root.value("paints").toArray() of line 208
paintsOf(body) == toArray(parseJson(body).paints)

LoadSeventvPaints ==
    /\ Len(urlQuery) < MaxLoads
    /\ urlQuery' = Append(urlQuery, QueryItem)
    /\ pending' = pending + 1
    /\ last' = [op |-> "loadSeventvPaints", query |-> urlQuery']
    /\ UNCHANGED <<knownPaints_, paintMap_, allocated, mutex_, load, get, committed>>

TransportFailure ==
    /\ pending > 0
    /\ pending' = pending - 1
    /\ last' = [op |-> "transportFailure"]
    /\ UNCHANGED <<knownPaints_, paintMap_, allocated, mutex_, load, get, committed,
                   urlQuery>>

ResponseSuccess(body) ==
    /\ pending > 0
    /\ pending' = pending - 1
    /\ OnSuccessLocked(paintsOf(body))
    /\ last' = [op |-> "onSuccess", malformed |-> (body \in MalformedBodies),
                parsed |-> onSuccess(Current, paintsOf(body)).alloc - allocated]
    /\ UNCHANGED urlQuery

NextLoad ==
    \/ LoadSeventvPaints
    \/ TransportFailure
    \/ \E body \in Bodies : ResponseSuccess(body)

SpecLoad == Init /\ [][NextLoad]_vars

\* C12: a load whose transport fails, or whose response body has no usable
\* top-level "paints" array, leaves knownPaints_ and paintMap_ as they were.
C12_FailedLoadCommitsNothing ==
    [][(last'.op = "transportFailure" \/ (last'.op = "onSuccess" /\ last'.malformed)) =>
          /\ knownPaints_' = knownPaints_
          /\ paintMap_' = paintMap_]_vars

\* a malformed response was handled while the registry held paints and assignments
C12_Witness ==
    /\ last.op = "onSuccess"
    /\ last.malformed
    /\ DOMAIN knownPaints_ # {}
    /\ DOMAIN paintMap_ # {}


\* C18: the request of every loadSeventvPaints call carries exactly one query
\* item, user_identifier=login, however many calls came before.
C18_RequestCarriesOneItem ==
    last.op = "loadSeventvPaints" => last.query = <<QueryItem>>

(***************************************************************************)
(* SpecMerge: two loads in flight.  Their success handlers run one after   *)
(* the other under the unique_lock (line 206), in either order.  The run   *)
(* starts in a registry that an earlier response left behind.              *)
(***************************************************************************)
StartRegistries == {onSuccess(Registry(EmptyMap, EmptyMap, 0), c) : c \in Catalogs}

InitMerge ==
    /\ \E st \in StartRegistries :
          /\ knownPaints_ = st.known
          /\ paintMap_ = st.map
          /\ allocated = st.alloc
          /\ committed = st.map
    /\ last = [op |-> "none"]
    /\ mutex_ = [writer |-> FALSE, readers |-> {}]
    /\ load = Idle
    /\ get = [t \in Threads |-> Idle]
    /\ urlQuery = <<QueryItem, QueryItem>>
    /\ pending = 2

\* the handler of the response that arrives first
FirstResponse(paints) ==
    /\ pending = 2
    /\ pending' = 1
    /\ UniqueLockAvailable
    /\ Commit(onSuccess(Current, paints))
    /\ last' = [op |-> "firstResponse", start |-> Current, a |-> paints]
    /\ UNCHANGED <<mutex_, load, get, urlQuery>>

\* the handler of the other response
SecondResponse(paints) ==
    /\ pending = 1
    /\ pending' = 0
    /\ UniqueLockAvailable
    /\ Commit(onSuccess(Current, paints))
    /\ last' = [op |-> "secondResponse", start |-> last.start, a |-> last.a, b |-> paints]
    /\ UNCHANGED <<mutex_, load, get, urlQuery>>

NextMerge ==
    \/ \E paints \in Catalogs : FirstResponse(paints)
    \/ \E paints \in Catalogs : SecondResponse(paints)

SpecMerge == InitMerge /\ [][NextMerge]_vars

\* a paint without the identity of its instance: its id and definition
Definition(paint) == [f \in DOMAIN paint \ {"inst"} |-> paint[f]]
Definitions(m) == [k \in DOMAIN m |-> Definition(m[k])]
SameByDefinition(st1, st2) ==
    /\ Definitions(st1.known) = Definitions(st2.known)
    /\ Definitions(st1.map) = Definitions(st2.map)

ParsedIds(paints) == {paints[i].id : i \in {j \in 1..Len(paints) : Parsed(paints, j)}}
ParsedUsers(paints) ==
    {u \in Users : \E i \in 1..Len(paints) : Parsed(paints, i) /\ Lists(paints[i], u)}
\* no paint id and no username occurs in parsed records of both arrays
Independent(a, b) ==
    /\ ParsedIds(a) \cap ParsedIds(b) = {}
    /\ ParsedUsers(a) \cap ParsedUsers(b) = {}

\* C15 as stated: after the handlers of arrays a and b ran in this order, both
\* maps hold, key by key, the paints (by id and definition) that the order b, a
\* would have left.
C15_LoadsCommute ==
    last.op = "secondResponse" =>
        SameByDefinition(Current, onSuccess(onSuccess(last.start, last.b), last.a))

\* C15 amended: the two orders agree when no paint id and no username occurs
\* in parsed records of both arrays.
C15_IndependentLoadsCommute ==
    (last.op = "secondResponse" /\ Independent(last.a, last.b)) =>
        SameByDefinition(Current, onSuccess(onSuccess(last.start, last.b), last.a))

\* two independent arrays, each with a parsed record, were merged into a
\* registry that already held assignments, and the second one assigned a user
C15_Witness ==
    /\ last.op = "secondResponse"
    /\ Independent(last.a, last.b)
    /\ ParsedIds(last.a) # {}
    /\ ParsedUsers(last.b) # {}
    /\ DOMAIN last.start.map # {}

====
